---- MODULE Spec2Model ----
(***************************************************************************)
(* Model of src/app.js: the block editor's page directory, block list,     *)
(* local storage, and the rendered block elements with the listeners that  *)
(* renderBlocks attaches to them.                                          *)
(*                                                                         *)
(* Text (block content, innerHTML) is a sequence of tokens; a token is one *)
(* character, or one fixed run of characters (the template's white space,  *)
(* the placeholder text, an HTML tag written by processContent).           *)
(* Timestamps (createdAt, updatedAt) and the always-empty children list    *)
(* are left out of the block and page records.                             *)
(***************************************************************************)
EXTENDS Integers, Sequences, FiniteSets, TLC

VARIABLES
    pages,          \* state.pages: sequence of [id, name, parentId]
    currentPage,    \* state.currentPage: a page name or NoPage
    blocks,         \* state.blocks: sequence of [id, type, content, indent]
    lastBlockType,  \* state.lastBlockType
    favorites,      \* state.favorites: sequence of page names
    recentPages,    \* state.recentPages: sequence of page names
    storage,        \* localStorage: keys 'pages', 'favorites', 'recentPages', 'page-<name>'
    dom,            \* the .block elements of blocksContainer, with their listeners' closures
    dropListeners,  \* number of 'drop' listeners registered on blocksContainer
    hash,           \* window.location.hash
    nextId,         \* source of generateId
    timers,         \* the focus steps deleteBlock has deferred and that have not run
    ev,             \* the event handled last, with the program state it started from
                    \* and, for a Tab key pressed right after another, that key too
    steps           \* number of events the model still lets happen

vars == <<pages, currentPage, blocks, lastBlockType, favorites, recentPages,
          storage, dom, dropListeners, hash, nextId, timers, ev, steps>>

----------------------------------------------------------------------------
(* Bounds of the model *)

MaxSteps == 3
MaxPageSteps == 5
MaxBlocks == 3
MaxPages == 7
MaxDropListeners == 2
MaxSwitchSteps == 4
MaxRecentSteps == 3
MaxIndentSteps == 2
MaxCallSteps == 3
MaxFocusSteps == 4
MaxInputSteps == 3
MaxIdSteps == 2

(* Program constants *)

MaxIndent == 4
MaxRecent == 5

NoPage == "<null>"
NoId == 0
Absent == <<"absent">>

Sentinel == "~"
Pad == "<ws>"
DelOpen == "<del>"
DelClose == "</del>"
PlaceholderText == <<"Type / for commands">>

BlockTypes ==
    {"text", "h1", "h2", "h3", "todo", "bullet", "numbered", "toggle", "quote",
     "divider", "code", "image", "embed", "table"}

StickyTypes == {"todo", "bullet", "numbered"}

\* types rendered without a .block-content element
NoContentTypes == {"divider", "image", "embed", "table", "code"}

RerenderTypes == {"image", "embed", "table"}

----------------------------------------------------------------------------
(* Sequences *)

Min(a, b) == IF a < b THEN a ELSE b
Max(a, b) == IF a > b THEN a ELSE b

Range(s) == {s[i] : i \in 1..Len(s)}

\* findIndex(b => b.id === id), 0-based, -1 when absent
IndexOfId(list, id) ==
    IF \E i \in 1..Len(list) : list[i].id = id
    THEN (CHOOSE i \in 1..Len(list) :
              list[i].id = id /\ \A j \in 1..(i - 1) : list[j].id # id) - 1
    ELSE -1

\* findIndex(page => page.name === name)
IndexOfName(list, name) ==
    IF \E i \in 1..Len(list) : list[i].name = name
    THEN (CHOOSE i \in 1..Len(list) :
              list[i].name = name /\ \A j \in 1..(i - 1) : list[j].name # name) - 1
    ELSE -1

\* Array.prototype.indexOf
IndexOf(list, x) ==
    IF \E i \in 1..Len(list) : list[i] = x
    THEN (CHOOSE i \in 1..Len(list) : list[i] = x /\ \A j \in 1..(i - 1) : list[j] # x) - 1
    ELSE -1

\* Array.prototype.filter(y => y !== x)
Without(list, x) == SelectSeq(list, LAMBDA y : y # x)

\* Array.prototype.splice(pos, 0, x), pos 0-based; a negative pos counts from the end
SpliceIn(s, pos, x) ==
    LET p == IF pos < 0 THEN Max(0, Len(s) + pos) ELSE Min(pos, Len(s))
    IN SubSeq(s, 1, p) \o <<x>> \o SubSeq(s, p + 1, Len(s))

\* Array.prototype.splice(pos, 1), pos 0-based and inside the array
SpliceOut(s, pos) == SubSeq(s, 1, pos) \o SubSeq(s, pos + 2, Len(s))

StartsWith(s, c) == Len(s) > 0 /\ s[1] = c

\* String.prototype.replace(/^~/, '')
StripSentinel(s) == IF StartsWith(s, Sentinel) THEN Tail(s) ELSE s

----------------------------------------------------------------------------
(* localStorage and JSON *)

\* JSON.stringify: the stored string, kept apart from the value it encodes
Stringify(x) == <<"json", x>>

\* JSON.parse(localStorage.getItem(key)) || []
ParseOrEmpty(v) == IF v = Absent THEN <<>> ELSE v[2]

\* encodeURIComponent / decodeURIComponent; decodeURIComponent throws URIError on
\* a text that is no encoding, such as one with a '%' not followed by two hex digits
EncodeURIComponent(name) == <<"uri", name>>
DecodeURIComponent(e) == e[2]
Malformed == <<"malformed">>
DecodeThrows(e) == e[1] # "uri"

\* window.location.hash: '#page=' + encodeURIComponent(name), optionally followed
\* by '&block=' + blockId, or a fragment of another shape (the empty one included)
PageHash(name) == [kind |-> "page", page |-> EncodeURIComponent(name), block |-> NoId]
BlockHash(name, id) == [kind |-> "page", page |-> EncodeURIComponent(name), block |-> id]
OtherHash == [kind |-> "other", page |-> EncodeURIComponent(""), block |-> NoId]
MalformedHash == [kind |-> "page", page |-> Malformed, block |-> NoId]

----------------------------------------------------------------------------
(* The program state as one record, so that a handler is the composition   *)
(* of the functions it calls.                                              *)

Cur ==
    [pages |-> pages, currentPage |-> currentPage, blocks |-> blocks,
     lastBlockType |-> lastBlockType, favorites |-> favorites,
     recentPages |-> recentPages, storage |-> storage, dom |-> dom,
     dropListeners |-> dropListeners, hash |-> hash, nextId |-> nextId,
     timers |-> timers]

savePages(s) == [s EXCEPT !.storage.pages = Stringify(s.pages)]

saveBlocks(s) ==
    IF s.currentPage # NoPage
    THEN [s EXCEPT !.storage.page[s.currentPage] = Stringify(s.blocks)]
    ELSE s

saveFavorites(s) == [s EXCEPT !.storage.favorites = Stringify(s.favorites)]

saveRecentPages(s) == [s EXCEPT !.storage.recentPages = Stringify(s.recentPages)]

----------------------------------------------------------------------------
(* Rendering *)

\* the strikethrough rule of processContent, /~([^~]+)~/g; the other rules need
\* two markup characters in one text, which no text of the model holds
RECURSIVE processContent(_)
processContent(s) ==
    IF s = <<>> THEN <<>>
    ELSE IF /\ s[1] = Sentinel
            /\ \E j \in 3..Len(s) : s[j] = Sentinel /\ \A k \in 2..(j-1) : s[k] # Sentinel
    THEN LET j == CHOOSE j \in 3..Len(s) :
                      s[j] = Sentinel /\ \A k \in 2..(j-1) : s[k] # Sentinel
         IN <<DelOpen>> \o SubSeq(s, 2, j - 1) \o <<DelClose>>
                \o processContent(SubSeq(s, j + 1, Len(s)))
    ELSE <<s[1]>> \o processContent(Tail(s))

\* one .block element as renderBlocks writes it and setupBlockEventListeners
\* wires it: block and index are what the listeners close over
BlockElement(b, i) ==
    LET isChecked == b.type = "todo" /\ StartsWith(b.content, Sentinel)
        content == IF isChecked THEN StripSentinel(b.content) ELSE b.content
        editable == b.type \notin NoContentTypes
    IN [id |-> b.id,
        block |-> b,
        index |-> i,
        editable |-> editable,
        text |-> IF editable THEN <<Pad>> \o processContent(content) \o <<Pad>> ELSE <<>>,
        checked |-> isChecked]

renderBlocks(s) ==
    [s EXCEPT !.dom = [i \in 1..Len(s.blocks) |-> BlockElement(s.blocks[i], i - 1)],
              !.dropListeners = Min(s.dropListeners + 1, MaxDropListeners)]

----------------------------------------------------------------------------
(* Block management *)

\* createBlock returns the block; createBlockState is the state it leaves
createBlock(s, type, content, indent) ==
    [id |-> s.nextId, type |-> type, content |-> content, indent |-> indent]

createBlockState(s, type) ==
    [s EXCEPT !.lastBlockType = type, !.nextId = s.nextId + 1]

\* position is NoPosition for null
NoPosition == -1

addBlock(s, type, content, indent, position) ==
    LET newBlock == createBlock(s, type, content, indent)
        s1 == createBlockState(s, type)
        s2 == [s1 EXCEPT !.blocks = IF position = NoPosition
                                    THEN Append(s1.blocks, newBlock)
                                    ELSE SpliceIn(s1.blocks, position, newBlock)]
    IN renderBlocks(saveBlocks(s2))

\* updates is a record holding some of type, content, indent
Merge(b, updates) ==
    [f \in DOMAIN b |-> IF f \in DOMAIN updates THEN updates[f] ELSE b[f]]

\* updateBlock without the saveBlocks call of line 610
updateBlockUnsaved(s, id, updates) ==
    LET index == IndexOfId(s.blocks, id)
    IN IF index # -1
       THEN LET s1 == [s EXCEPT !.blocks[index + 1] = Merge(@, updates)]
            IN IF /\ "content" \in DOMAIN updates
                  /\ updates.content # <<>>
                  /\ s1.blocks[index + 1].type \in RerenderTypes
               THEN renderBlocks(s1)
               ELSE s1
       ELSE s

updateBlock(s, id, updates) ==
    LET index == IndexOfId(s.blocks, id)
    IN IF index # -1
       THEN LET s1 == saveBlocks([s EXCEPT !.blocks[index + 1] = Merge(@, updates)])
            IN IF /\ "content" \in DOMAIN updates
                  /\ updates.content # <<>>
                  /\ s1.blocks[index + 1].type \in RerenderTypes
               THEN renderBlocks(s1)
               ELSE s1
       ELSE s

\* the setTimeout of deleteBlock: when blocks are left, a focus step for the removed
\* index is deferred
deferFocus(s, index) ==
    IF Len(s.blocks) > 0
    THEN [s EXCEPT !.timers = Append(@, [kind |-> "focus", index |-> index, id |-> NoId])]
    ELSE s

\* the deferred step when it runs, on the block list of that moment: the id it
\* focuses, and whether reading state.blocks[Math.max(0, index - 1)].id threw
focusStep(s, index) ==
    LET at == Max(0, index - 1)
    IN IF at < Len(s.blocks)
       THEN [id |-> s.blocks[at + 1].id, threw |-> FALSE]
       ELSE [id |-> NoId, threw |-> TRUE]

\* deleteBlock without the test of line 621: splice(-1, 1) removes the last block
deleteBlockUnguarded(s, id) ==
    LET index == IndexOfId(s.blocks, id)
        at == IF index # -1 THEN index ELSE Len(s.blocks) - 1
    IN IF s.blocks # <<>>
       THEN deferFocus(renderBlocks(saveBlocks([s EXCEPT !.blocks = SpliceOut(@, at)])),
                       index)
       ELSE renderBlocks(saveBlocks(s))

\* deleteBlock without the saveBlocks call of line 623
deleteBlockUnsaved(s, id) ==
    LET index == IndexOfId(s.blocks, id)
    IN IF index # -1
       THEN deferFocus(renderBlocks([s EXCEPT !.blocks = SpliceOut(@, index)]), index)
       ELSE s

\* deleteBlock with splice(index + 1, 1)
deleteBlockOffByOne(s, id) ==
    LET index == IndexOfId(s.blocks, id)
    IN IF index # -1
       THEN deferFocus(renderBlocks(saveBlocks(
                [s EXCEPT !.blocks = SpliceOut(@, Min(index + 1, Len(@)))])), index)
       ELSE s

deleteBlock(s, id) ==
    LET index == IndexOfId(s.blocks, id)
    IN IF index # -1
       THEN deferFocus(renderBlocks(saveBlocks([s EXCEPT !.blocks = SpliceOut(@, index)])),
                       index)
       ELSE s

\* duplicateBlock with push instead of splice(index + 1, 0, newBlock)
duplicateBlockAppending(s, id) ==
    LET index == IndexOfId(s.blocks, id)
    IN IF index # -1
       THEN LET block == s.blocks[index + 1]
                newBlock == createBlock(s, block.type, block.content, block.indent)
                s1 == createBlockState(s, block.type)
            IN renderBlocks(saveBlocks([s1 EXCEPT !.blocks = Append(@, newBlock)]))
       ELSE s

duplicateBlock(s, id) ==
    LET index == IndexOfId(s.blocks, id)
    IN IF index # -1
       THEN LET block == s.blocks[index + 1]
                newBlock == createBlock(s, block.type, block.content, block.indent)
                s1 == createBlockState(s, block.type)
            IN renderBlocks(saveBlocks(
                   [s1 EXCEPT !.blocks = SpliceIn(@, index + 1, newBlock)]))
       ELSE s

----------------------------------------------------------------------------
(* Page management *)

PageNamed(s, name) == \E i \in 1..Len(s.pages) : s.pages[i].name = name

\* loadPage without the seeding of lines 151-154
loadPageUnseeded(s, name) ==
    IF ~PageNamed(s, name) THEN s
    ELSE
    LET s1 == [s EXCEPT !.currentPage = name,
                        !.blocks = ParseOrEmpty(s.storage.page[name])]
        filtered == Without(s1.recentPages, name)
        unshifted == <<name>> \o filtered
        popped == IF Len(unshifted) > MaxRecent
                  THEN SubSeq(unshifted, 1, Len(unshifted) - 1)
                  ELSE unshifted
        s2 == saveRecentPages([s1 EXCEPT !.recentPages = popped])
    IN [renderBlocks(s2) EXCEPT !.hash = PageHash(name)]

\* loadPage without the pop of line 147
loadPageUncapped(s, name) ==
    IF ~PageNamed(s, name) THEN s
    ELSE
    LET s1 == [s EXCEPT !.currentPage = name,
                        !.blocks = ParseOrEmpty(s.storage.page[name])]
        unshifted == <<name>> \o Without(s1.recentPages, name)
        s2 == saveRecentPages([s1 EXCEPT !.recentPages = unshifted])
        s3 == IF Len(s2.blocks) = 0
              THEN saveBlocks([createBlockState(s2, "text") EXCEPT
                       !.blocks = <<createBlock(s2, "text", PlaceholderText, 0)>>])
              ELSE s2
    IN [renderBlocks(s3) EXCEPT !.hash = PageHash(name)]

loadPage(s, name) ==
    IF ~PageNamed(s, name) THEN s
    ELSE
    LET s1 == [s EXCEPT !.currentPage = name,
                        !.blocks = ParseOrEmpty(s.storage.page[name])]
        filtered == Without(s1.recentPages, name)
        unshifted == <<name>> \o filtered
        popped == IF Len(unshifted) > MaxRecent
                  THEN SubSeq(unshifted, 1, Len(unshifted) - 1)
                  ELSE unshifted
        s2 == saveRecentPages([s1 EXCEPT !.recentPages = popped])
        s3 == IF Len(s2.blocks) = 0
              THEN saveBlocks([createBlockState(s2, "text") EXCEPT
                       !.blocks = <<createBlock(s2, "text", PlaceholderText, 0)>>])
              ELSE s2
    IN [renderBlocks(s3) EXCEPT !.hash = PageHash(name)]

\* createPage without the check of line 88
createPageUnchecked(s, name, parentId) ==
    LET newPage == [id |-> s.nextId, name |-> name, parentId |-> parentId]
        s1 == [s EXCEPT !.nextId = s.nextId + 1, !.pages = Append(s.pages, newPage)]
    IN [loadPage(savePages(s1), name) EXCEPT !.hash = PageHash(name)]

createPage(s, name, parentId) ==
    IF PageNamed(s, name) THEN s
    ELSE
    LET newPage == [id |-> s.nextId, name |-> name, parentId |-> parentId]
        s1 == [s EXCEPT !.nextId = s.nextId + 1, !.pages = Append(s.pages, newPage)]
    IN [loadPage(savePages(s1), name) EXCEPT !.hash = PageHash(name)]

\* confirm[n] is the user's answer to the confirmation request for page n
RECURSIVE deletePage(_, _, _)
RECURSIVE deleteChildPages(_, _, _)

deleteChildPages(s, childPages, confirm) ==
    IF childPages = <<>> THEN s
    ELSE deleteChildPages(deletePage(s, Head(childPages).name, confirm),
                          Tail(childPages), confirm)

\* deletePage without the confirmation of line 109
deletePageUnconfirmed(s, name, confirm) ==
    LET pageIndex == IndexOfName(s.pages, name)
        childPages == IF pageIndex # -1
                      THEN SelectSeq(s.pages,
                                     LAMBDA p : p.parentId = s.pages[pageIndex + 1].id)
                      ELSE <<>>
        s1 == deleteChildPages(s, childPages, confirm)
        s2 == [s1 EXCEPT
                  !.pages = SelectSeq(@, LAMBDA page : page.name # name),
                  !.favorites = Without(@, name),
                  !.recentPages = Without(@, name)]
        s3 == saveRecentPages(saveFavorites(savePages(s2)))
        s4 == IF s3.currentPage = name
              THEN LET first == IF Len(s3.pages) > 0 THEN s3.pages[1].name ELSE NoPage
                   IN renderBlocks(
                          [s3 EXCEPT !.currentPage = first,
                                     !.blocks = IF first # NoPage
                                                THEN ParseOrEmpty(s3.storage.page[first])
                                                ELSE <<>>])
              ELSE s3
    IN [s4 EXCEPT !.storage.page[name] = Absent]

\* deletePage without the reload of lines 131-132
deletePageKeepingBlocks(s, name, confirm) ==
    IF ~confirm[name] THEN s
    ELSE
    LET pageIndex == IndexOfName(s.pages, name)
        childPages == IF pageIndex # -1
                      THEN SelectSeq(s.pages,
                                     LAMBDA p : p.parentId = s.pages[pageIndex + 1].id)
                      ELSE <<>>
        s1 == deleteChildPages(s, childPages, confirm)
        s2 == [s1 EXCEPT
                  !.pages = SelectSeq(@, LAMBDA page : page.name # name),
                  !.favorites = Without(@, name),
                  !.recentPages = Without(@, name)]
        s3 == saveRecentPages(saveFavorites(savePages(s2)))
        s4 == IF s3.currentPage = name
              THEN LET first == IF Len(s3.pages) > 0 THEN s3.pages[1].name ELSE NoPage
                   IN renderBlocks([s3 EXCEPT !.currentPage = first])
              ELSE s3
    IN [s4 EXCEPT !.storage.page[name] = Absent]

\* deletePage without the removeItem call of line 135
deletePageKeepingStored(s, name, confirm) ==
    IF ~confirm[name] THEN s
    ELSE
    LET pageIndex == IndexOfName(s.pages, name)
        childPages == IF pageIndex # -1
                      THEN SelectSeq(s.pages,
                                     LAMBDA p : p.parentId = s.pages[pageIndex + 1].id)
                      ELSE <<>>
        s1 == deleteChildPages(s, childPages, confirm)
        s2 == [s1 EXCEPT
                  !.pages = SelectSeq(@, LAMBDA page : page.name # name),
                  !.favorites = Without(@, name),
                  !.recentPages = Without(@, name)]
        s3 == saveRecentPages(saveFavorites(savePages(s2)))
    IN IF s3.currentPage = name
       THEN LET first == IF Len(s3.pages) > 0 THEN s3.pages[1].name ELSE NoPage
            IN renderBlocks(
                   [s3 EXCEPT !.currentPage = first,
                              !.blocks = IF first # NoPage
                                         THEN ParseOrEmpty(s3.storage.page[first])
                                         ELSE <<>>])
       ELSE s3

\* deletePage without the filter of recentPages of line 120
deletePageKeepingRecent(s, name, confirm) ==
    IF ~confirm[name] THEN s
    ELSE
    LET pageIndex == IndexOfName(s.pages, name)
        childPages == IF pageIndex # -1
                      THEN SelectSeq(s.pages,
                                     LAMBDA p : p.parentId = s.pages[pageIndex + 1].id)
                      ELSE <<>>
        s1 == deleteChildPages(s, childPages, confirm)
        s2 == [s1 EXCEPT
                  !.pages = SelectSeq(@, LAMBDA page : page.name # name),
                  !.favorites = Without(@, name)]
        s3 == saveRecentPages(saveFavorites(savePages(s2)))
        s4 == IF s3.currentPage = name
              THEN LET first == IF Len(s3.pages) > 0 THEN s3.pages[1].name ELSE NoPage
                   IN renderBlocks(
                          [s3 EXCEPT !.currentPage = first,
                                     !.blocks = IF first # NoPage
                                                THEN ParseOrEmpty(s3.storage.page[first])
                                                ELSE <<>>])
              ELSE s3
    IN [s4 EXCEPT !.storage.page[name] = Absent]

deletePage(s, name, confirm) ==
    IF ~confirm[name] THEN s
    ELSE
    LET pageIndex == IndexOfName(s.pages, name)
        childPages == IF pageIndex # -1
                      THEN SelectSeq(s.pages,
                                     LAMBDA p : p.parentId = s.pages[pageIndex + 1].id)
                      ELSE <<>>
        s1 == deleteChildPages(s, childPages, confirm)
        s2 == [s1 EXCEPT
                  !.pages = SelectSeq(@, LAMBDA page : page.name # name),
                  !.favorites = Without(@, name),
                  !.recentPages = Without(@, name)]
        s3 == saveRecentPages(saveFavorites(savePages(s2)))
        s4 == IF s3.currentPage = name
              THEN LET first == IF Len(s3.pages) > 0 THEN s3.pages[1].name ELSE NoPage
                   IN renderBlocks(
                          [s3 EXCEPT !.currentPage = first,
                                     !.blocks = IF first # NoPage
                                                THEN ParseOrEmpty(s3.storage.page[first])
                                                ELSE <<>>])
              ELSE s3
    IN [s4 EXCEPT !.storage.page[name] = Absent]

\* the first occurrence of old in list becomes new (indexOf, then assignment)
ReplaceFirst(list, old, new) ==
    LET i == IndexOf(list, old)
    IN IF i # -1 THEN [list EXCEPT ![i + 1] = new] ELSE list

\* renameExisting without the removeItem call of line 200
renameExistingCopying(s, oldName, newName) ==
    LET pageIndex == IndexOfName(s.pages, oldName)
    IN IF pageIndex = -1 THEN s
       ELSE
       LET s1 == [s EXCEPT
                     !.pages[pageIndex + 1].name = newName,
                     !.favorites = ReplaceFirst(@, oldName, newName),
                     !.recentPages = ReplaceFirst(@, oldName, newName),
                     !.currentPage = IF @ = oldName THEN newName ELSE @]
           stored == s1.storage.page[oldName]
           s2 == IF stored # Absent
                 THEN [s1 EXCEPT !.storage.page[newName] = stored]
                 ELSE s1
       IN saveRecentPages(saveFavorites(savePages(s2)))

\* renamePage after its collision check
renameExisting(s, oldName, newName) ==
    LET pageIndex == IndexOfName(s.pages, oldName)
    IN IF pageIndex = -1 THEN s
       ELSE
       LET s1 == [s EXCEPT
                     !.pages[pageIndex + 1].name = newName,
                     !.favorites = ReplaceFirst(@, oldName, newName),
                     !.recentPages = ReplaceFirst(@, oldName, newName),
                     !.currentPage = IF @ = oldName THEN newName ELSE @]
           stored == s1.storage.page[oldName]
           s2 == IF stored # Absent
                 THEN [s1 EXCEPT !.storage.page[newName] = stored,
                                 !.storage.page[oldName] = Absent]
                 ELSE s1
       IN saveRecentPages(saveFavorites(savePages(s2)))

\* renamePage without the check of line 171
renamePageUnchecked(s, oldName, newName) == renameExisting(s, oldName, newName)

renamePage(s, oldName, newName) ==
    IF PageNamed(s, newName) THEN s
    ELSE renameExisting(s, oldName, newName)

toggleFavorite(s, pageName) ==
    LET index == IndexOf(s.favorites, pageName)
    IN saveFavorites([s EXCEPT !.favorites = IF index = -1
                                             THEN Append(@, pageName)
                                             ELSE SpliceOut(@, index)])

\* the setTimeout of handleRouting: the lookup of the block named by the fragment
\* is deferred
deferScroll(s, blockId) ==
    [s EXCEPT !.timers = Append(@, [kind |-> "scroll", index |-> 0, id |-> blockId])]

\* the deferred lookup when it runs, on the elements of that moment: the id of the
\* element it scrolls to and highlights, NoId when getElementById finds none (the
\* content element of an editable block carries the block id)
scrollStep(s, blockId) ==
    IF \E i \in 1..Len(s.dom) : s.dom[i].id = blockId /\ s.dom[i].editable
    THEN blockId ELSE NoId

\* decodeURIComponent throws before anything is done
handleRoutingThrows(s) == s.hash.kind = "page" /\ DecodeThrows(s.hash.page)

handleRouting(s) ==
    IF handleRoutingThrows(s) THEN s
    ELSE IF s.hash.kind = "page"
    THEN LET s1 == loadPage(s, DecodeURIComponent(s.hash.page))
         IN IF s.hash.block # NoId THEN deferScroll(s1, s.hash.block) ELSE s1
    ELSE IF Len(s.pages) > 0 THEN loadPage(s, s.pages[1].name)
    ELSE s

loadPages(s) ==
    LET s1 == [s EXCEPT !.pages = ParseOrEmpty(s.storage.pages)]
    IN IF Len(s1.pages) = 0 THEN createPage(s1, "Welcome", NoId) ELSE s1

init(s) == handleRouting(loadPages(s))

----------------------------------------------------------------------------
(* Listeners of a rendered block element e = s.dom[i].  What a listener    *)
(* reads through e.block and e.index is what it closed over when the       *)
(* element was rendered; what it reads through s is the current state.     *)

\* the character U+0060, which a string of this module cannot hold
BackTick == "<backtick>"

MarkdownShortcuts ==
    { [text |-> <<"#", " ">>,           type |-> "h1"],
      [text |-> <<"#", "#", " ">>,      type |-> "h2"],
      [text |-> <<"#", "#", "#", " ">>, type |-> "h3"],
      [text |-> <<"*", " ">>,           type |-> "bullet"],
      [text |-> <<"1", ".", " ">>,      type |-> "numbered"],
      [text |-> <<">", " ">>,           type |-> "toggle"],
      [text |-> <<"[", "]", " ">>,      type |-> "todo"],
      [text |-> <<"-", "-", "-">>,      type |-> "divider"],
      [text |-> <<BackTick, BackTick, BackTick, " ">>, type |-> "code"] }

\* the 'input' listener; the browser has already put the new text in the element
inputListener(s, i) ==
    LET e == s.dom[i]
        fired == {m \in MarkdownShortcuts : e.text = m.text /\ e.block.type # m.type}
    IN IF fired # {}
       THEN updateBlock(s, e.id, [type |-> (CHOOSE m \in fired : TRUE).type,
                                  content |-> <<>>])
       ELSE updateBlock(s, e.id, [content |-> e.text])

\* the 'change' listener of the to-do checkbox; e.checked is already the new value
checkboxListener(s, i) ==
    LET e == s.dom[i]
        newContent == IF e.checked
                      THEN <<Sentinel>> \o StripSentinel(e.block.content)
                      ELSE StripSentinel(e.block.content)
    IN updateBlock(s, e.id, [content |-> newContent])

\* handleBlockKeydown, Enter
enterKey(s, i, caretOffset) ==
    LET e == s.dom[i]
        currentContent == e.text
    IN IF caretOffset > 0 /\ caretOffset < Len(currentContent)
       THEN LET beforeText == SubSeq(currentContent, 1, caretOffset)
                afterText == SubSeq(currentContent, caretOffset + 1, Len(currentContent))
            IN addBlock(updateBlock(s, e.block.id, [content |-> beforeText]),
                        e.block.type, afterText, e.block.indent, e.index + 1)
       ELSE LET nextType == IF e.block.type \in StickyTypes
                            THEN e.block.type
                            ELSE s.lastBlockType
            IN addBlock(s, nextType, <<>>, e.block.indent, e.index + 1)

\* the Tab branch without the renderBlocks call of line 843
tabKeyUnrendered(s, i, shiftKey) ==
    LET e == s.dom[i]
        newIndent == IF shiftKey
                     THEN Max(0, e.block.indent - 1)
                     ELSE Min(MaxIndent, e.block.indent + 1)
    IN updateBlock(s, e.block.id, [indent |-> newIndent])

\* the Tab branch without Math.max and Math.min
tabKeyUnclamped(s, i, shiftKey) ==
    LET e == s.dom[i]
        newIndent == IF shiftKey THEN e.block.indent - 1 ELSE e.block.indent + 1
    IN renderBlocks(updateBlock(s, e.block.id, [indent |-> newIndent]))

\* handleBlockKeydown, Tab and Shift+Tab
tabKey(s, i, shiftKey) ==
    LET e == s.dom[i]
        newIndent == IF shiftKey
                     THEN Max(0, e.block.indent - 1)
                     ELSE Min(MaxIndent, e.block.indent + 1)
    IN renderBlocks(updateBlock(s, e.block.id, [indent |-> newIndent]))

\* a click on an item of the menu that showBlockTypeMenu opened for the block
menuItemClick(s, blockId, type) ==
    renderBlocks(updateBlock(s, blockId, [type |-> type]))

\* the drop listener putting the block back only when findIndex finds the target
dropListenerLosing(s, id, afterElementId) ==
    LET blockIndex == IndexOfId(s.blocks, id)
    IN IF blockIndex = -1 THEN s
       ELSE
       LET block == s.blocks[blockIndex + 1]
           removed == SpliceOut(s.blocks, blockIndex)
           moved == IF afterElementId # NoId
                    THEN IF IndexOfId(removed, afterElementId) # -1
                         THEN SpliceIn(removed, IndexOfId(removed, afterElementId), block)
                         ELSE removed
                    ELSE Append(removed, block)
       IN renderBlocks(saveBlocks([s EXCEPT !.blocks = moved]))

\* one 'drop' listener of blocksContainer; afterElementId is the block id of the
\* element getDragAfterElement returns, NoId when it returns none
dropListener(s, id, afterElementId) ==
    LET blockIndex == IndexOfId(s.blocks, id)
    IN IF blockIndex = -1 THEN s
       ELSE
       LET block == s.blocks[blockIndex + 1]
           removed == SpliceOut(s.blocks, blockIndex)
           moved == IF afterElementId # NoId
                    THEN SpliceIn(removed, IndexOfId(removed, afterElementId), block)
                    ELSE Append(removed, block)
       IN renderBlocks(saveBlocks([s EXCEPT !.blocks = moved]))

\* the drop event runs every registered listener, in order; afterIds[k] is what
\* getDragAfterElement returns to the k-th
RECURSIVE dropEvent(_, _, _)
dropEvent(s, id, afterIds) ==
    IF afterIds = <<>> THEN s
    ELSE dropEvent(dropListener(s, id, Head(afterIds)), id, Tail(afterIds))

\* ArrowUp (delta -1) and ArrowDown (delta 1): navigateToBlock moves the focus and
\* the caret to the block at e.index + delta when there is one, and nothing else
arrowKey(s, i, delta) == s

\* the clipboard text of a paste: clip.text its characters, clip.marked whether
\* it includes '#page=' and '&block=', clip.absolute whether new URL(text) accepts
\* it, clip.page the part of its fragment between '#page=' and the first '&'
handlePasteThrows(clip) ==
    clip.marked /\ (~clip.absolute \/ DecodeThrows(clip.page))

\* what execCommand('insertHTML') is given
PastedHTML(clip) ==
    IF clip.marked
    THEN <<"<a>", DecodeURIComponent(clip.page), " (block)", "</a>">>
    ELSE clip.text

\* the 'paste' listener of the content element of s.dom[i]; the insertion, made
\* at the end of the text, fires the element's 'input' listener
handlePaste(s, i, clip) ==
    IF handlePasteThrows(clip) THEN s
    ELSE inputListener([s EXCEPT !.dom[i].text = @ \o PastedHTML(clip)], i)

----------------------------------------------------------------------------
(* The state after the page has loaded on an empty localStorage *)

EmptyState ==
    [pages |-> <<>>, currentPage |-> NoPage, blocks |-> <<>>,
     lastBlockType |-> "text", favorites |-> <<>>, recentPages |-> <<>>,
     storage |-> [pages |-> Absent, favorites |-> Absent, recentPages |-> Absent,
                  page |-> [n \in {"Welcome", "A", "B", "C", "D", "E", "F"} |-> Absent]],
     dom |-> <<>>, dropListeners |-> 0, hash |-> OtherHash, nextId |-> 1,
     timers |-> <<>>]

Loaded == init(EmptyState)

\* ev.before, unless the event is a Tab key pressed right after another Tab key
NoEvent == [same |-> FALSE, id |-> NoId, name |-> NoPage, num |-> 0]

InitWith(budget) ==
    /\ pages = Loaded.pages
    /\ currentPage = Loaded.currentPage
    /\ blocks = Loaded.blocks
    /\ lastBlockType = Loaded.lastBlockType
    /\ favorites = Loaded.favorites
    /\ recentPages = Loaded.recentPages
    /\ storage = Loaded.storage
    /\ dom = Loaded.dom
    /\ dropListeners = Loaded.dropListeners
    /\ hash = Loaded.hash
    /\ nextId = Loaded.nextId
    /\ timers = Loaded.timers
    /\ ev = [op |-> "init", id |-> NoId, name |-> NoPage, text |-> <<>>, num |-> 0,
             pre |-> EmptyState, before |-> NoEvent]
    /\ steps = budget

Init == InitWith(MaxSteps)

\* the event handler ran from Cur to s2
Handled(s2, op, id, name, text, num) ==
    /\ steps > 0
    /\ pages' = s2.pages
    /\ currentPage' = s2.currentPage
    /\ blocks' = s2.blocks
    /\ lastBlockType' = s2.lastBlockType
    /\ favorites' = s2.favorites
    /\ recentPages' = s2.recentPages
    /\ storage' = s2.storage
    /\ dom' = s2.dom
    /\ dropListeners' = s2.dropListeners
    /\ hash' = s2.hash
    /\ nextId' = s2.nextId
    /\ timers' = s2.timers
    /\ ev' = [op |-> op, id |-> id, name |-> name, text |-> text, num |-> num,
              pre |-> Cur,
              before |-> IF op = "tab" /\ ev.op = op
                         THEN [same |-> TRUE, id |-> ev.id, name |-> ev.name, num |-> ev.num]
                         ELSE NoEvent]
    /\ steps' = steps - 1

----------------------------------------------------------------------------
(* Events *)

PageNames(s) == {s.pages[i].name : i \in 1..Len(s.pages)}
PageIds(s) == {s.pages[i].id : i \in 1..Len(s.pages)}
HasRoom == Len(blocks) < MaxBlocks

\* ev.text of an event whose handler ended in an uncaught exception
Thrown == <<"<uncaught exception>">>

\* the user edits the text of block element i to t
Input(i, t) ==
    /\ dom[i].editable
    /\ dom[i].text # t
    /\ Handled(inputListener([Cur EXCEPT !.dom[i].text = t], i),
               "input", dom[i].id, NoPage, t, 0)

Enter(i, caretOffset) ==
    /\ dom[i].editable
    /\ HasRoom
    /\ Handled(enterKey(Cur, i, caretOffset), "enter", dom[i].id, NoPage,
               dom[i].text, caretOffset)

Tab(i, shiftKey) ==
    /\ dom[i].editable
    /\ Handled(tabKey(Cur, i, shiftKey), "tab", dom[i].id, NoPage, <<>>,
               IF shiftKey THEN -1 ELSE 1)

Backspace(i) ==
    /\ dom[i].editable
    /\ dom[i].text = <<>>
    /\ Handled(deleteBlock(Cur, dom[i].block.id), "backspace", dom[i].id, NoPage, <<>>, 0)

CtrlD(i) ==
    /\ dom[i].editable
    /\ HasRoom
    /\ Handled(duplicateBlock(Cur, dom[i].block.id), "duplicate", dom[i].id, NoPage,
               <<>>, 0)

DeleteButton(i) ==
    Handled(deleteBlock(Cur, dom[i].id), "delete", dom[i].id, NoPage, <<>>, 0)

Checkbox(i) ==
    /\ dom[i].block.type = "todo"
    /\ Handled(checkboxListener([Cur EXCEPT !.dom[i].checked = ~dom[i].checked], i),
               "checkbox", dom[i].id, NoPage, <<>>, 0)

MenuRetype(i, type) ==
    Handled(menuItemClick(Cur, dom[i].id, type), "retype", dom[i].id, type, <<>>, 0)

\* a URL entered in the input of an embed block
EmbedUrl(i) ==
    /\ dom[i].block.type = "embed"
    /\ Handled(updateBlock(Cur, dom[i].id, [content |-> <<"https://e">>]),
               "embed", dom[i].id, NoPage, <<>>, 0)

\* block element i is dragged and dropped; the first listener sees it as .dragging
Drop(i, afterIds) ==
    /\ afterIds[1] # dom[i].id
    /\ Handled(dropEvent(Cur, dom[i].id, afterIds), "drop", dom[i].id, NoPage, <<>>,
               afterIds[1])

CreatePage(name, parentId) ==
    /\ Len(pages) < MaxPages
    /\ Handled(createPage(Cur, name, parentId), "createPage", parentId, name, <<>>, 0)

\* only the answers about existing pages are asked for
DeletePage(name, confirm) ==
    /\ \A n \in DOMAIN confirm : n \notin PageNames(Cur) => confirm[n]
    /\ Handled(deletePage(Cur, name, confirm), "deletePage", NoId, name, <<>>,
               IF confirm[name] THEN 1 ELSE 0)

LoadPage(name) ==
    Handled(loadPage(Cur, name), "loadPage", NoId, name, <<>>, 0)

RenamePage(oldName, newName) ==
    /\ newName # oldName
    /\ Handled(renamePage(Cur, oldName, newName), "renamePage", NoId, newName,
               <<oldName>>, 0)

ToggleFavorite(name) ==
    Handled(toggleFavorite(Cur, name), "toggleFavorite", NoId, name, <<>>, 0)

\* the fragment changes to h
HashChange(h) ==
    Handled(handleRouting([Cur EXCEPT !.hash = h]), "hashchange", NoId, NoPage,
            IF handleRoutingThrows([Cur EXCEPT !.hash = h]) THEN Thrown ELSE <<>>, 0)

----------------------------------------------------------------------------
(* Inputs of the events *)

Names == {"Welcome", "A", "B"}

Texts == { <<>>, <<"a", "b">>, <<"#", " ">>, <<"[", "]", " ">> }

MenuTypes == {"text", "todo", "embed"}

Hashes == {PageHash(n) : n \in Names} \cup {OtherHash}

Elements == 1..Len(dom)

DomIds == {dom[i].id : i \in Elements}

Next ==
    \/ \E i \in Elements, t \in Texts : Input(i, t)
    \/ \E i \in Elements : \E o \in 0..Len(dom[i].text) : Enter(i, o)
    \/ \E i \in Elements, shiftKey \in BOOLEAN : Tab(i, shiftKey)
    \/ \E i \in Elements : Backspace(i)
    \/ \E i \in Elements : CtrlD(i)
    \/ \E i \in Elements : DeleteButton(i)
    \/ \E i \in Elements : Checkbox(i)
    \/ \E i \in Elements, type \in MenuTypes : MenuRetype(i, type)
    \/ \E i \in Elements : EmbedUrl(i)
    \/ \E i \in Elements :
           /\ steps > 0
           /\ \E afterIds \in [1..dropListeners -> DomIds \cup {NoId}] : Drop(i, afterIds)
    \/ \E name \in Names, parentId \in PageIds(Cur) \cup {NoId} : CreatePage(name, parentId)
    \/ \E name \in PageNames(Cur), confirm \in [Names -> BOOLEAN] : DeletePage(name, confirm)
    \/ \E name \in PageNames(Cur) : LoadPage(name)
    \/ \E oldName \in PageNames(Cur), newName \in Names : RenamePage(oldName, newName)
    \/ \E name \in PageNames(Cur) : ToggleFavorite(name)
    \/ \E h \in Hashes : HashChange(h)

Spec == Init /\ [][Next]_vars

\* the page directory alone, over more events
PageEvents ==
    \/ \E name \in Names, parentId \in PageIds(Cur) \cup {NoId} : CreatePage(name, parentId)
    \/ \E name \in PageNames(Cur), confirm \in [Names -> BOOLEAN] : DeletePage(name, confirm)
    \/ \E name \in PageNames(Cur) : LoadPage(name)
    \/ \E oldName \in PageNames(Cur), newName \in Names : RenamePage(oldName, newName)
    \/ \E name \in PageNames(Cur) : ToggleFavorite(name)
    \/ \E h \in Hashes : HashChange(h)
    \/ \E i \in Elements : DeleteButton(i)

InitPages == InitWith(MaxPageSteps)

SpecPages == InitPages /\ [][PageEvents]_vars

\* editing one page and switching between two: the state after init, a new page
\* "A" from the sidebar, and a click on "Welcome"
LoadedTwoPages == loadPage(createPage(Loaded, "A", NoId), "Welcome")

InitSwitch ==
    /\ pages = LoadedTwoPages.pages
    /\ currentPage = LoadedTwoPages.currentPage
    /\ blocks = LoadedTwoPages.blocks
    /\ lastBlockType = LoadedTwoPages.lastBlockType
    /\ favorites = LoadedTwoPages.favorites
    /\ recentPages = LoadedTwoPages.recentPages
    /\ storage = LoadedTwoPages.storage
    /\ dom = LoadedTwoPages.dom
    /\ dropListeners = LoadedTwoPages.dropListeners
    /\ hash = LoadedTwoPages.hash
    /\ nextId = LoadedTwoPages.nextId
    /\ timers = LoadedTwoPages.timers
    /\ ev = [op |-> "loadPage", id |-> NoId, name |-> "Welcome", text |-> <<>>,
             num |-> 0, pre |-> createPage(Loaded, "A", NoId), before |-> NoEvent]
    /\ steps = MaxSwitchSteps

SwitchEvents ==
    \/ \E i \in Elements, t \in Texts : Input(i, t)
    \/ \E i \in Elements : \E o \in 0..Len(dom[i].text) : Enter(i, o)
    \/ \E i \in Elements : CtrlD(i)
    \/ \E i \in Elements : DeleteButton(i)
    \/ \E name \in PageNames(Cur) : LoadPage(name)

SpecSwitch == InitSwitch /\ [][SwitchEvents]_vars

\* a directory of five pages, made one after the other from the sidebar
LoadedFivePages ==
    createPage(createPage(createPage(createPage(Loaded, "A", NoId), "B", NoId),
                          "C", NoId), "D", NoId)

InitRecent ==
    /\ pages = LoadedFivePages.pages
    /\ currentPage = LoadedFivePages.currentPage
    /\ blocks = LoadedFivePages.blocks
    /\ lastBlockType = LoadedFivePages.lastBlockType
    /\ favorites = LoadedFivePages.favorites
    /\ recentPages = LoadedFivePages.recentPages
    /\ storage = LoadedFivePages.storage
    /\ dom = LoadedFivePages.dom
    /\ dropListeners = LoadedFivePages.dropListeners
    /\ hash = LoadedFivePages.hash
    /\ nextId = LoadedFivePages.nextId
    /\ timers = LoadedFivePages.timers
    /\ ev = [op |-> "createPage", id |-> NoId, name |-> "D", text |-> <<>>, num |-> 0,
             pre |-> createPage(createPage(createPage(Loaded, "A", NoId), "B", NoId),
                                "C", NoId),
             before |-> NoEvent]
    /\ steps = MaxRecentSteps

NewNames == {"E", "F"}

RecentEvents ==
    \/ \E name \in NewNames \cup {"A"} : CreatePage(name, NoId)
    \/ \E name \in PageNames(Cur) : LoadPage(name)
    \/ \E oldName \in PageNames(Cur), newName \in NewNames \cup {"A"} :
           RenamePage(oldName, newName)
    \/ \E name \in PageNames(Cur) : ToggleFavorite(name)
    \/ \E name \in PageNames(Cur) :
           DeletePage(name, [n \in PageNames(Cur) \cup Names |-> TRUE])

SpecRecent == InitRecent /\ [][RecentEvents]_vars

\* the first block after k presses of Tab
RECURSIVE TabTimes(_, _)
TabTimes(s, k) == IF k = 0 THEN s ELSE TabTimes(tabKey(s, 1, FALSE), k - 1)

InitIndent ==
    \E k \in 0..MaxIndent :
        LET s == TabTimes(Loaded, k)
        IN /\ pages = s.pages
           /\ currentPage = s.currentPage
           /\ blocks = s.blocks
           /\ lastBlockType = s.lastBlockType
           /\ favorites = s.favorites
           /\ recentPages = s.recentPages
           /\ storage = s.storage
           /\ dom = s.dom
           /\ dropListeners = s.dropListeners
           /\ hash = s.hash
           /\ nextId = s.nextId
           /\ timers = s.timers
           /\ ev = [op |-> "init", id |-> NoId, name |-> NoPage, text |-> <<>>,
                    num |-> 0, pre |-> EmptyState, before |-> NoEvent]
           /\ steps = MaxIndentSteps

IndentEvents ==
    \/ \E i \in Elements, t \in Texts : Input(i, t)
    \/ \E i \in Elements : \E o \in 0..Len(dom[i].text) : Enter(i, o)
    \/ \E i \in Elements, shiftKey \in BOOLEAN : Tab(i, shiftKey)
    \/ \E i \in Elements : CtrlD(i)
    \/ \E i \in Elements :
           /\ steps > 0
           /\ \E afterIds \in [1..dropListeners -> DomIds \cup {NoId}] : Drop(i, afterIds)

SpecIndent == InitIndent /\ [][IndentEvents]_vars

\* the block operations called with any id, one of the current page or not (a
\* type menu left open for a block deleted since, dragged data that is not a
\* block id), and loadPage called with any name
IdsSoFar == 1..nextId

Updates == { [content |-> <<"a", "b">>], [type |-> "todo"], [indent |-> 1] }

UpdateBlockCall(id, updates) ==
    Handled(updateBlock(Cur, id, updates), "updateBlock", id, NoPage, <<>>, 0)

DeleteBlockCall(id) ==
    Handled(deleteBlock(Cur, id), "deleteBlock", id, NoPage, <<>>, 0)

DuplicateBlockCall(id) ==
    /\ HasRoom
    /\ Handled(duplicateBlock(Cur, id), "duplicateBlock", id, NoPage, <<>>, 0)

DropData(id, afterIds) ==
    /\ afterIds[1] # id
    /\ Handled(dropEvent(Cur, id, afterIds), "dropData", id, NoPage, <<>>, afterIds[1])

InitCalls ==
    /\ pages = LoadedTwoPages.pages
    /\ currentPage = LoadedTwoPages.currentPage
    /\ blocks = LoadedTwoPages.blocks
    /\ lastBlockType = LoadedTwoPages.lastBlockType
    /\ favorites = LoadedTwoPages.favorites
    /\ recentPages = LoadedTwoPages.recentPages
    /\ storage = LoadedTwoPages.storage
    /\ dom = LoadedTwoPages.dom
    /\ dropListeners = LoadedTwoPages.dropListeners
    /\ hash = LoadedTwoPages.hash
    /\ nextId = LoadedTwoPages.nextId
    /\ timers = LoadedTwoPages.timers
    /\ ev = [op |-> "loadPage", id |-> NoId, name |-> "Welcome", text |-> <<>>,
             num |-> 0, pre |-> createPage(Loaded, "A", NoId), before |-> NoEvent]
    /\ steps = MaxCallSteps

CallEvents ==
    \/ \E id \in IdsSoFar, updates \in Updates : UpdateBlockCall(id, updates)
    \/ \E id \in IdsSoFar : DeleteBlockCall(id)
    \/ \E id \in IdsSoFar : DuplicateBlockCall(id)
    \/ \E id \in IdsSoFar : \E afterIds \in [1..dropListeners -> DomIds \cup {NoId}] :
           DropData(id, afterIds)
    \/ \E name \in Names : LoadPage(name)

SpecCalls == InitCalls /\ [][CallEvents]_vars

\* the deferred steps of one kind that have not run, and the oldest of them
Pending(kind) == {k \in 1..Len(timers) : timers[k].kind = kind}

Oldest(kind) == CHOOSE k \in Pending(kind) : \A j \in Pending(kind) : k <= j

\* the oldest deferred focus step runs, on the state of that moment; ev.id is the
\* block it focuses, ev.num the removed index it was deferred for, ev.text says
\* whether it ended in an exception
FocusTimer ==
    /\ Pending("focus") # {}
    /\ LET k == Oldest("focus")
           r == focusStep(Cur, timers[k].index)
       IN Handled([Cur EXCEPT !.timers = SpliceOut(@, k - 1)], "focusTimer", r.id,
                  NoPage, IF r.threw THEN Thrown ELSE <<>>, timers[k].index)

\* the oldest deferred lookup of handleRouting runs; ev.id is the element it
\* scrolls to and highlights, ev.num the block id of the fragment
ScrollTimer ==
    /\ Pending("scroll") # {}
    /\ LET k == Oldest("scroll")
       IN Handled([Cur EXCEPT !.timers = SpliceOut(@, k - 1)], "scrollTimer",
                  scrollStep(Cur, timers[k].id), NoPage, <<>>, timers[k].id)

\* a page of three blocks, the last two added with the add-block control, and
\* deletions, page switches and page deletions racing the deferred focus steps
LoadedThreeBlocks ==
    addBlock(addBlock(LoadedTwoPages, "text", <<>>, 0, NoPosition),
             "text", <<>>, 0, NoPosition)

InitFocus ==
    /\ pages = LoadedThreeBlocks.pages
    /\ currentPage = LoadedThreeBlocks.currentPage
    /\ blocks = LoadedThreeBlocks.blocks
    /\ lastBlockType = LoadedThreeBlocks.lastBlockType
    /\ favorites = LoadedThreeBlocks.favorites
    /\ recentPages = LoadedThreeBlocks.recentPages
    /\ storage = LoadedThreeBlocks.storage
    /\ dom = LoadedThreeBlocks.dom
    /\ dropListeners = LoadedThreeBlocks.dropListeners
    /\ hash = LoadedThreeBlocks.hash
    /\ nextId = LoadedThreeBlocks.nextId
    /\ timers = LoadedThreeBlocks.timers
    /\ ev = [op |-> "addBlock", id |-> NoId, name |-> NoPage, text |-> <<>>,
             num |-> 0, pre |-> addBlock(LoadedTwoPages, "text", <<>>, 0, NoPosition),
             before |-> NoEvent]
    /\ steps = MaxFocusSteps

FocusEvents ==
    \/ \E i \in Elements : Input(i, <<>>)
    \/ \E i \in Elements : DeleteButton(i)
    \/ \E i \in Elements : Backspace(i)
    \/ \E i \in Elements : \E o \in 0..Len(dom[i].text) : Enter(i, o)
    \/ \E name \in PageNames(Cur) : LoadPage(name)
    \/ \E name \in PageNames(Cur) : DeletePage(name, [n \in Names |-> TRUE])
    \/ FocusTimer

SpecFocus == InitFocus /\ [][FocusEvents]_vars

ArrowKey(i, delta) ==
    /\ dom[i].editable
    /\ Handled(arrowKey(Cur, i, delta), "arrow", dom[i].id, NoPage, <<>>, delta)

\* the user pastes clip into block element i
Paste(i, clip) ==
    /\ dom[i].editable
    /\ Handled(handlePaste(Cur, i, clip), "paste", dom[i].id, NoPage,
               IF handlePasteThrows(clip) THEN Thrown ELSE <<>>, 0)

\* plain text, a block link, the fragment of one alone, and a block link whose
\* page part is no encoding
Clips ==
    { [text |-> <<"a", "b">>, marked |-> FALSE, absolute |-> FALSE,
       page |-> EncodeURIComponent("")],
      [text |-> <<"https://host/#page=A&block=2">>, marked |-> TRUE, absolute |-> TRUE,
       page |-> EncodeURIComponent("A")],
      [text |-> <<"#page=A&block=2">>, marked |-> TRUE, absolute |-> FALSE,
       page |-> EncodeURIComponent("A")],
      [text |-> <<"https://host/#page=%&block=2">>, marked |-> TRUE, absolute |-> TRUE,
       page |-> Malformed] }

\* an id no block has
UnusedId == nextId

\* fragments of every shape: a page, a page and a block, something else, and a
\* page part that is no encoding
AnyHashes ==
    {PageHash(n) : n \in Names}
        \cup {BlockHash(n, id) : n \in Names, id \in DomIds \cup {UnusedId}}
        \cup {OtherHash, MalformedHash}

InitInputs ==
    /\ pages = LoadedTwoPages.pages
    /\ currentPage = LoadedTwoPages.currentPage
    /\ blocks = LoadedTwoPages.blocks
    /\ lastBlockType = LoadedTwoPages.lastBlockType
    /\ favorites = LoadedTwoPages.favorites
    /\ recentPages = LoadedTwoPages.recentPages
    /\ storage = LoadedTwoPages.storage
    /\ dom = LoadedTwoPages.dom
    /\ dropListeners = LoadedTwoPages.dropListeners
    /\ hash = LoadedTwoPages.hash
    /\ nextId = LoadedTwoPages.nextId
    /\ timers = LoadedTwoPages.timers
    /\ ev = [op |-> "loadPage", id |-> NoId, name |-> "Welcome", text |-> <<>>,
             num |-> 0, pre |-> createPage(Loaded, "A", NoId), before |-> NoEvent]
    /\ steps = MaxInputSteps

InputEvents ==
    \/ \E i \in Elements, clip \in Clips : Paste(i, clip)
    \/ \E h \in AnyHashes : HashChange(h)
    \/ ScrollTimer

SpecInputs == InitInputs /\ [][InputEvents]_vars

\* a page of two blocks and every event that the block list of the current page
\* lives through
LoadedTwoBlocks == addBlock(LoadedTwoPages, "text", <<>>, 0, NoPosition)

InitIds ==
    /\ pages = LoadedTwoBlocks.pages
    /\ currentPage = LoadedTwoBlocks.currentPage
    /\ blocks = LoadedTwoBlocks.blocks
    /\ lastBlockType = LoadedTwoBlocks.lastBlockType
    /\ favorites = LoadedTwoBlocks.favorites
    /\ recentPages = LoadedTwoBlocks.recentPages
    /\ storage = LoadedTwoBlocks.storage
    /\ dom = LoadedTwoBlocks.dom
    /\ dropListeners = LoadedTwoBlocks.dropListeners
    /\ hash = LoadedTwoBlocks.hash
    /\ nextId = LoadedTwoBlocks.nextId
    /\ timers = LoadedTwoBlocks.timers
    /\ ev = [op |-> "addBlock", id |-> NoId, name |-> NoPage, text |-> <<>>,
             num |-> 0, pre |-> LoadedTwoPages, before |-> NoEvent]
    /\ steps = MaxIdSteps

IdEvents ==
    \/ \E i \in Elements, t \in Texts : Input(i, t)
    \/ \E i \in Elements : \E o \in 0..Len(dom[i].text) : Enter(i, o)
    \/ \E i \in Elements, shiftKey \in BOOLEAN : Tab(i, shiftKey)
    \/ \E i \in Elements : Backspace(i)
    \/ \E i \in Elements : CtrlD(i)
    \/ \E i \in Elements : DeleteButton(i)
    \/ \E i \in Elements : Checkbox(i)
    \/ \E i \in Elements, type \in MenuTypes : MenuRetype(i, type)
    \/ \E i \in Elements, delta \in {-1, 1} : ArrowKey(i, delta)
    \/ \E i \in Elements :
           /\ steps > 0
           /\ \E afterIds \in [1..dropListeners -> DomIds \cup {NoId}] : Drop(i, afterIds)
    \/ \E oldName \in PageNames(Cur), newName \in Names : RenamePage(oldName, newName)
    \/ \E name \in PageNames(Cur) : ToggleFavorite(name)

SpecIds == InitIds /\ [][IdEvents]_vars

----------------------------------------------------------------------------
(* What the claims speak of *)

BlockById(list, id) == list[IndexOfId(list, id) + 1]

HasBlock(list, id) == IndexOfId(list, id) # -1

\* the names of the pages of s below the page with id rootId, by parentId links
RECURSIVE DescendantsWithin(_, _, _)
DescendantsWithin(s, rootIds, k) ==
    LET children == {s.pages[i].id : i \in {j \in 1..Len(s.pages) :
                                               s.pages[j].parentId \in rootIds}}
    IN IF k = 0 \/ children \subseteq rootIds THEN rootIds
       ELSE DescendantsWithin(s, rootIds \cup children, k - 1)

\* the page called name and every page below it
Subtree(s, name) ==
    LET root == {s.pages[i].id : i \in {j \in 1..Len(s.pages) : s.pages[j].name = name}}
        ids == DescendantsWithin(s, root, Len(s.pages))
    IN {s.pages[i].name : i \in {j \in 1..Len(s.pages) : s.pages[j].id \in ids}}

----------------------------------------------------------------------------
(* C1: no two pages of the directory have the same name, in every          *)
(* reachable state, whatever createPage, renamePage, deletePage and        *)
(* loadPage calls led to it.                                               *)
C1_UniquePageNames ==
    \A i, j \in 1..Len(pages) : pages[i].name = pages[j].name => i = j

\* a rename onto the name of another page was attempted
C1_Witness ==
    /\ ev.op = "renamePage"
    /\ PageNamed(ev.pre, ev.name)
    /\ Len(pages) > 1

----------------------------------------------------------------------------
(* Enter.  ev.text is the element's text when the key was pressed, ev.num  *)
(* the caret offset; the block created by the keystroke has the id that    *)
(* generateId gave next.                                                   *)

EnterSource == BlockById(ev.pre.blocks, ev.id)
EnterSourceNow == BlockById(blocks, ev.id)
EnterNewIndex == IndexOfId(blocks, ev.pre.nextId)
EnterNew == BlockById(blocks, ev.pre.nextId)
NewIsNextToSource ==
    /\ Len(blocks) = Len(ev.pre.blocks) + 1
    /\ HasBlock(blocks, ev.id)
    /\ EnterNewIndex = IndexOfId(blocks, ev.id) + 1

(* C2: split law.  Enter with caret offset o, 0 < o < length(content),     *)
(* leaves the block and a new block right after it whose contents, in that *)
(* order, concatenate to the stored content the block had, for every block *)
(* type, a checked to-do with its leading sentinel included.               *)
C2_SplitLaw ==
    (/\ ev.op = "enter"
     /\ ev.num > 0
     /\ ev.num < Len(EnterSource.content))
    => /\ NewIsNextToSource
       /\ EnterSourceNow.content \o EnterNew.content = EnterSource.content

(* C3: when Enter splits a block in the middle of its content, the new     *)
(* block has the type and the indent the source block has in the model     *)
(* when the key is pressed, also after a markdown shortcut changed the     *)
(* type or the content was edited since the last render.                   *)
C3_SplitKeepsTypeAndIndent ==
    (/\ ev.op = "enter"
     /\ ev.num > 0
     /\ ev.num < Len(ev.text))
    => /\ NewIsNextToSource
       /\ EnterNew.type = EnterSource.type
       /\ EnterNew.indent = EnterSource.indent

(* C4: Enter with the caret at the start or the end of a block inserts     *)
(* right after it a new block with empty content, of the block's type if   *)
(* that type is to-do, bullet or numbered (however the block got it), and  *)
(* of the last-used type otherwise.                                        *)
C4_EnterAtEdgeType ==
    (/\ ev.op = "enter"
     /\ (ev.num = 0 \/ ev.num = Len(ev.text)))
    => /\ NewIsNextToSource
       /\ EnterNew.content = <<>>
       /\ EnterNew.type = IF EnterSource.type \in StickyTypes
                          THEN EnterSource.type
                          ELSE ev.pre.lastBlockType

----------------------------------------------------------------------------
(* Content change.  ev.text is the element's text after the edit.          *)

ImpliedTypes == {m.type : m \in {x \in MarkdownShortcuts : x.text = ev.text}}
InputBefore == BlockById(ev.pre.blocks, ev.id)
InputAfter == BlockById(blocks, ev.id)
InputElement == dom[IndexOfId(dom, ev.id) + 1]

(* C5: on a content-change event, if the whole text is a trigger string    *)
(* and the block's type is not the implied type, the type becomes the      *)
(* implied type and the stored content becomes empty, in one step; in      *)
(* every other case the event stores the new content and leaves the type.  *)
C5_MarkdownRetype ==
    ev.op = "input" =>
        IF \E t \in ImpliedTypes : InputBefore.type # t
        THEN /\ InputAfter.type \in ImpliedTypes
             /\ InputAfter.content = <<>>
        ELSE /\ InputAfter.type = InputBefore.type
             /\ InputAfter.content = ev.text

(* C6: markdown autocomplete is one-shot: once a retype has fired for a    *)
(* block, the trigger text is gone from the block's editable text, and     *)
(* the same retype does not fire again for that block.                     *)
C6_OneShot ==
    (/\ ev.op = "input"
     /\ ImpliedTypes # {})
    => /\ (InputBefore.type \notin ImpliedTypes /\ InputAfter.type \in ImpliedTypes)
              => InputElement.text = <<>>
       /\ InputBefore.type \in ImpliedTypes => InputAfter.content = ev.text

----------------------------------------------------------------------------
(* Checkbox *)

ToggleBefore == BlockById(ev.pre.blocks, ev.id)
ToggleAfter == BlockById(blocks, ev.id)

(* C7: toggling the checkbox of a to-do changes only the leading checked   *)
(* sentinel: the stored content after the toggle is the stored content     *)
(* just before it with the sentinel added or removed, so text typed since  *)
(* the last render is kept.                                                *)
C7_ToggleKeepsText ==
    ev.op = "checkbox" =>
        ToggleAfter.content \in { StripSentinel(ToggleBefore.content),
                                 <<Sentinel>> \o StripSentinel(ToggleBefore.content) }

(* C8: for an unchecked to-do with content c, the first toggle (a check)   *)
(* stores the sentinel followed by c, and a second toggle right after it   *)
(* stores exactly c again.                                                 *)
C8_ToggleTwice ==
    [][ ev'.op = "checkbox" =>
          LET id == ev'.id
              now == BlockById(blocks, id)
              first == BlockById(ev.pre.blocks, id)
          IN /\ (/\ now.type = "todo"
                 /\ ~StartsWith(now.content, Sentinel)
                 /\ dom'[IndexOfId(dom', id) + 1].checked)
                    => BlockById(blocks', id).content = <<Sentinel>> \o now.content
             /\ (/\ ev.op = "checkbox"
                 /\ ev.id = id
                 /\ first.type = "todo"
                 /\ ~StartsWith(first.content, Sentinel)
                 /\ now.content = <<Sentinel>> \o first.content)
                    => BlockById(blocks', id).content = first.content ]_vars

----------------------------------------------------------------------------
(* C9: once deletePage(name) has been confirmed and has returned, neither  *)
(* the page nor any page below it by parentId links is in the directory,   *)
(* in favorites or in recentPages, and none of them has a persisted block  *)
(* list.  ev.num is 1 when the request for name itself was accepted.       *)
C9_DeleteCascade ==
    (ev.op = "deletePage" /\ ev.num = 1) =>
        \A n \in Subtree(ev.pre, ev.name) :
            /\ ~PageNamed(Cur, n)
            /\ n \notin Range(favorites)
            /\ n \notin Range(recentPages)
            /\ storage.page[n] = Absent

\* the same, for a deletion in which no page is left with a deleted parent
C9_CascadeWhenNoneRefused ==
    (/\ ev.op = "deletePage"
     /\ ev.num = 1
     /\ \A i \in 1..Len(pages) :
            pages[i].parentId \in PageIds(ev.pre) => pages[i].parentId \in PageIds(Cur))
    => \A n \in Subtree(ev.pre, ev.name) :
            /\ ~PageNamed(Cur, n)
            /\ n \notin Range(favorites)
            /\ n \notin Range(recentPages)
            /\ storage.page[n] = Absent

----------------------------------------------------------------------------
(* C10: the persisted state equals the in-memory state after every         *)
(* operation: key 'pages' deserializes to the page list, 'favorites' and   *)
(* 'recentPages' to those lists, and 'page-<currentPage>' to the block     *)
(* list in memory.                                                         *)
C10_PersistedEqualsMemory ==
    /\ ParseOrEmpty(storage.pages) = pages
    /\ ParseOrEmpty(storage.favorites) = favorites
    /\ ParseOrEmpty(storage.recentPages) = recentPages
    /\ currentPage # NoPage => ParseOrEmpty(storage.page[currentPage]) = blocks

\* a drop has reordered the blocks of a page other than the first one
C10_Witness ==
    /\ ev.op = "drop"
    /\ blocks # ev.pre.blocks
    /\ currentPage # "Welcome"
    /\ storage.page[currentPage] = Stringify(blocks)

----------------------------------------------------------------------------
(* Switching pages.  In a step that loads page P right after a step that   *)
(* left P by loading another page, ev.pre is the state in which P was left *)
(* and the primed state is the one in which P is back.                     *)

BackToLeftPage ==
    /\ ev.op = "loadPage"
    /\ ev.pre.currentPage # NoPage
    /\ currentPage = ev.name
    /\ currentPage # ev.pre.currentPage
    /\ ev'.op = "loadPage"
    /\ ev'.name = ev.pre.currentPage

(* C11 as stated: switching pages loses nothing.  For any page P and any   *)
(* sequence of block operations on P, deletions included, loading another  *)
(* page Q and then P again yields the block sequence P had when it was     *)
(* left: same ids, types, content, indent, order and length.               *)
C11_SwitchLosesNothing ==
    [][ BackToLeftPage => blocks' = ev.pre.blocks ]_vars

(* C11 as amended: the same for a page left with at least one block; a     *)
(* page left with no block comes back with one seeded placeholder text     *)
(* block, as loadPage does for every empty page.                           *)
C11_SwitchKeepsNonEmptyList ==
    [][ BackToLeftPage =>
          IF ev.pre.blocks # <<>>
          THEN blocks' = ev.pre.blocks
          ELSE /\ Len(blocks') = 1
               /\ blocks'[1].type = "text"
               /\ blocks'[1].content = PlaceholderText ]_vars

\* a page that was edited down or up to two blocks and then left is loaded again
C11_Witness ==
    /\ ev.op = "loadPage"
    /\ ev.name = currentPage
    /\ ev.pre.currentPage \notin {NoPage, currentPage}
    /\ Len(blocks) = 2
    /\ blocks = ParseOrEmpty(ev.pre.storage.page[currentPage])
    /\ \E i \in 1..2 : blocks[i].content # PlaceholderText

----------------------------------------------------------------------------
\* the first MaxRecent entries of a list
Capped(list) == SubSeq(list, 1, Min(Len(list), MaxRecent))

NoDuplicates(list) == \A i, j \in 1..Len(list) : list[i] = list[j] => i = j

\* the event loaded the page ev.name: loadPage of a known page, createPage of a new one
EventLoadedPage ==
    \/ ev.op = "loadPage" /\ PageNamed(ev.pre, ev.name)
    \/ ev.op = "createPage" /\ ~PageNamed(ev.pre, ev.name)

(* C12: after any sequence of loadPage, createPage, renamePage and         *)
(* deletePage calls, recentPages has at most 5 entries and no duplicates   *)
(* and lists the most recently loaded pages most-recent first: a load puts *)
(* the page in front of the others and drops the sixth, a rename replaces  *)
(* the name in place, a delete removes names and keeps the order.          *)
C12_RecentPages ==
    /\ Len(recentPages) <= MaxRecent
    /\ NoDuplicates(recentPages)
    /\ EventLoadedPage =>
           recentPages = Capped(<<ev.name>> \o Without(ev.pre.recentPages, ev.name))
    /\ (ev.op = "createPage" /\ PageNamed(ev.pre, ev.name)) =>
           recentPages = ev.pre.recentPages
    /\ (ev.op = "renamePage" /\ ~PageNamed(ev.pre, ev.name)) =>
           recentPages = [i \in 1..Len(ev.pre.recentPages) |->
                             IF ev.pre.recentPages[i] = ev.text[1]
                             THEN ev.name
                             ELSE ev.pre.recentPages[i]]
    /\ ev.op = "deletePage" =>
           recentPages = SelectSeq(ev.pre.recentPages, LAMBDA n : PageNamed(Cur, n))

\* a sixth distinct page is loaded while recentPages holds five others
C12_Witness ==
    /\ ev.op = "createPage"
    /\ Len(pages) = 6
    /\ Len(ev.pre.recentPages) = MaxRecent
    /\ ev.name \notin Range(ev.pre.recentPages)
    /\ recentPages = <<ev.name>> \o SubSeq(ev.pre.recentPages, 1, MaxRecent - 1)

----------------------------------------------------------------------------
IndentsIn(list) == {list[i].indent : i \in 1..Len(list)}

StoredIndents ==
    UNION {IndentsIn(ParseOrEmpty(storage.page[n])) : n \in DOMAIN storage.page}

(* C13: the indent of every block of every page is an integer in 0..4      *)
(* after any sequence of Tab, Shift+Tab, Enter, duplicateBlock and         *)
(* drag-and-drop; a block made by Enter or by duplicateBlock has the       *)
(* indent of the block it came from; Tab adds 1 and Shift+Tab subtracts 1, *)
(* clamped to that range.                                                  *)
C13_IndentRange ==
    /\ IndentsIn(blocks) \cup StoredIndents \subseteq 0..MaxIndent
    /\ ev.op = "enter" =>
           EnterNew.indent = EnterSource.indent
    /\ ev.op = "duplicate" =>
           BlockById(blocks, ev.pre.nextId).indent = BlockById(ev.pre.blocks, ev.id).indent
    /\ ev.op = "tab" =>
           BlockById(blocks, ev.id).indent =
               IF ev.num = 1
               THEN Min(MaxIndent, BlockById(ev.pre.blocks, ev.id).indent + 1)
               ELSE Max(0, BlockById(ev.pre.blocks, ev.id).indent - 1)

\* Tab is pressed on a block that is already at indent 4
C13_Witness ==
    /\ ev.op = "tab"
    /\ ev.num = 1
    /\ BlockById(ev.pre.blocks, ev.id).indent = MaxIndent
    /\ BlockById(blocks, ev.id).indent = MaxIndent

----------------------------------------------------------------------------
(* Rename.  ev.text[1] is the old name, ev.name the new one.               *)

\* every occurrence of old in a list of names replaced by new
Renamed(list, old, new) ==
    [i \in 1..Len(list) |-> IF list[i] = old THEN new ELSE list[i]]

RenameApplies ==
    /\ ev.op = "renamePage"
    /\ PageNamed(ev.pre, ev.text[1])
    /\ ~PageNamed(ev.pre, ev.name)

(* C14: renamePage(oldName, newName) with newName not in use and oldName   *)
(* existing renames the page record, replaces oldName by newName at the    *)
(* same position of favorites and of recentPages, updates currentPage if   *)
(* it was oldName, and moves the persisted block list from 'page-oldName'  *)
(* to 'page-newName', the old key absent and the list unchanged; nothing   *)
(* else in the state changes.                                              *)
C14_RenameMigrates ==
    RenameApplies =>
        LET old == ev.text[1]
            new == ev.name
            p == ev.pre
        IN /\ pages = [i \in 1..Len(p.pages) |->
                          IF p.pages[i].name = old
                          THEN [p.pages[i] EXCEPT !.name = new]
                          ELSE p.pages[i]]
           /\ favorites = Renamed(p.favorites, old, new)
           /\ recentPages = Renamed(p.recentPages, old, new)
           /\ currentPage = IF p.currentPage = old THEN new ELSE p.currentPage
           /\ storage.page[new] = p.storage.page[old]
           /\ storage.page[new] # Absent
           /\ storage.page[old] = Absent
           /\ \A n \in DOMAIN storage.page \ {old, new} :
                  storage.page[n] = p.storage.page[n]
           /\ storage.pages = Stringify(pages)
           /\ storage.favorites = Stringify(favorites)
           /\ storage.recentPages = Stringify(recentPages)
           /\ blocks = p.blocks
           /\ lastBlockType = p.lastBlockType
           /\ dom = p.dom
           /\ dropListeners = p.dropListeners
           /\ hash = p.hash
           /\ nextId = p.nextId

\* the current page, a favorite, is renamed while another page exists
C14_Witness ==
    /\ RenameApplies
    /\ ev.pre.currentPage = ev.text[1]
    /\ ev.text[1] \in Range(ev.pre.favorites)
    /\ ev.text[1] \in Range(ev.pre.recentPages)
    /\ Len(pages) > 1
    /\ currentPage = ev.name

----------------------------------------------------------------------------
(* C15: createPage(name) or renamePage(old, name) with a name that a page  *)
(* already has changes nothing: pages, favorites, recentPages,             *)
(* currentPage, the block list in memory and every storage key are as      *)
(* before the call.                                                        *)
C15_CollisionChangesNothing ==
    (/\ ev.op \in {"createPage", "renamePage"}
     /\ PageNamed(ev.pre, ev.name))
    => /\ pages = ev.pre.pages
       /\ favorites = ev.pre.favorites
       /\ recentPages = ev.pre.recentPages
       /\ currentPage = ev.pre.currentPage
       /\ blocks = ev.pre.blocks
       /\ storage = ev.pre.storage

\* createPage is called with the name of a page that is not the current one
C15_Witness ==
    /\ ev.op = "createPage"
    /\ PageNamed(ev.pre, ev.name)
    /\ ev.pre.currentPage # ev.name
    /\ ev.pre.recentPages[1] # ev.name
    /\ Cur = ev.pre

----------------------------------------------------------------------------
(* C16: createPage(name, parentId) with an unused name appends one page    *)
(* with that name and parentId, makes it the current page, puts it at the  *)
(* front of recentPages, and leaves the block list of that page, in        *)
(* memory and persisted, equal to exactly one text block holding the       *)
(* placeholder content.  ev.id is the parentId given.                      *)
C16_CreatePageSeeds ==
    (/\ ev.op = "createPage"
     /\ ~PageNamed(ev.pre, ev.name))
    => /\ Len(pages) = Len(ev.pre.pages) + 1
       /\ SubSeq(pages, 1, Len(ev.pre.pages)) = ev.pre.pages
       /\ pages[Len(pages)].name = ev.name
       /\ pages[Len(pages)].parentId = ev.id
       /\ currentPage = ev.name
       /\ Len(recentPages) > 0
       /\ recentPages[1] = ev.name
       /\ Len(blocks) = 1
       /\ blocks[1].type = "text"
       /\ blocks[1].content = PlaceholderText
       /\ storage.page[ev.name] = Stringify(blocks)

\* a third page is made as a subpage of an existing page
C16_Witness ==
    /\ ev.op = "createPage"
    /\ ~PageNamed(ev.pre, ev.name)
    /\ ev.id \in PageIds(ev.pre)
    /\ Len(pages) = 3
    /\ currentPage = ev.name

----------------------------------------------------------------------------
(* C17: when deletePage removes the page that is current, currentPage      *)
(* becomes the name of the first page remaining in the directory and the   *)
(* block list in memory becomes that page's persisted block list, or       *)
(* currentPage becomes none with an empty block list when no page remains; *)
(* when neither the deleted page nor any page below it is current,         *)
(* currentPage and the block list in memory are unchanged.                 *)
C17_DeleteCurrentPage ==
    ev.op = "deletePage" =>
        /\ (ev.num = 1 /\ ev.pre.currentPage = ev.name) =>
               IF pages = <<>>
               THEN currentPage = NoPage /\ blocks = <<>>
               ELSE /\ currentPage = pages[1].name
                    /\ blocks = ParseOrEmpty(ev.pre.storage.page[pages[1].name])
        /\ ev.pre.currentPage \notin Subtree(ev.pre, ev.name) =>
               /\ currentPage = ev.pre.currentPage
               /\ blocks = ev.pre.blocks

\* the current page is deleted and the first remaining page takes its place
C17_Witness ==
    /\ ev.op = "deletePage"
    /\ ev.num = 1
    /\ ev.pre.currentPage = ev.name
    /\ pages # <<>>
    /\ currentPage = pages[1].name
    /\ blocks # ev.pre.blocks

----------------------------------------------------------------------------
(* C18: deletePage(name) whose confirmation is refused performs no         *)
(* mutation: pages, favorites, recentPages, currentPage, the block list    *)
(* and storage are unchanged.  ev.num is 0 when the request was refused.   *)
C18_RefusedDeleteChangesNothing ==
    (ev.op = "deletePage" /\ ev.num = 0)
    => /\ pages = ev.pre.pages
       /\ favorites = ev.pre.favorites
       /\ recentPages = ev.pre.recentPages
       /\ currentPage = ev.pre.currentPage
       /\ blocks = ev.pre.blocks
       /\ storage = ev.pre.storage

\* the deletion of the current page, a favorite with a subpage, is refused
C18_Witness ==
    /\ ev.op = "deletePage"
    /\ ev.num = 0
    /\ ev.pre.currentPage = ev.name
    /\ ev.name \in Range(ev.pre.favorites)
    /\ Subtree(ev.pre, ev.name) # {ev.name}
    /\ PageNamed(Cur, ev.name)

----------------------------------------------------------------------------
(* C19: toggleFavorite(name) applied twice in a row returns favorites, as  *)
(* an ordered list, and the persisted 'favorites' value to what they were  *)
(* before the first call, whether name was absent at first or present at   *)
(* any position.  The persisted value is compared as the list it           *)
(* deserializes to.                                                        *)
C19_ToggleFavoriteTwice ==
    [][ (/\ ev.op = "toggleFavorite"
         /\ ev'.op = "toggleFavorite"
         /\ ev'.name = ev.name)
        => /\ favorites' = ev.pre.favorites
           /\ ParseOrEmpty(storage'.favorites) = ParseOrEmpty(ev.pre.storage.favorites) ]_vars

\* the same, for a name that was absent or was the last entry
C19_ToggleTwiceAbsentOrLast ==
    [][ (/\ ev.op = "toggleFavorite"
         /\ ev'.op = "toggleFavorite"
         /\ ev'.name = ev.name
         /\ \/ ev.name \notin Range(ev.pre.favorites)
            \/ ev.pre.favorites[Len(ev.pre.favorites)] = ev.name)
        => /\ favorites' = ev.pre.favorites
           /\ ParseOrEmpty(storage'.favorites) = ParseOrEmpty(ev.pre.storage.favorites) ]_vars

----------------------------------------------------------------------------
(* C20: for a block whose indent i satisfies 0 <= i < 4, Tab followed by   *)
(* Shift+Tab on that block restores i, and for 0 < i <= 4 Shift+Tab        *)
(* followed by Tab restores i; only at the clamped boundary (Tab at 4,     *)
(* Shift+Tab at 0) does the pair not restore the indent.  In the step of   *)
(* the second key, ev is the first key and ev.pre the state before it.     *)
C20_TabPairRestores ==
    [][ (/\ ev.op = "tab"
         /\ ev'.op = "tab"
         /\ ev'.id = ev.id
         /\ ev'.num = 0 - ev.num)
        => LET i == BlockById(ev.pre.blocks, ev.id).indent
               j == BlockById(blocks', ev.id).indent
           IN IF ev.num = 1
              THEN IF i < MaxIndent THEN j = i ELSE j = MaxIndent - 1
              ELSE IF i > 0 THEN j = i ELSE j = 1 ]_vars

\* Tab and then Shift+Tab were pressed on a block that is back at indent 1
C20_Witness ==
    /\ ev.op = "tab"
    /\ ev.num = -1
    /\ ev.before.same
    /\ ev.before.id = ev.id
    /\ ev.before.num = 1
    /\ BlockById(ev.pre.blocks, ev.id).indent = 2
    /\ BlockById(blocks, ev.id).indent = 1

----------------------------------------------------------------------------
\* the event named a block id that is not in the block list, or a page name that is
\* not in the directory
UnknownReference ==
    \/ /\ ev.op \in {"updateBlock", "deleteBlock", "duplicateBlock", "dropData"}
       /\ ~HasBlock(ev.pre.blocks, ev.id)
    \/ /\ ev.op = "loadPage"
       /\ ~PageNamed(ev.pre, ev.name)

(* C21: operations that reference an unknown block id or page name are     *)
(* no-ops: updateBlock, deleteBlock and duplicateBlock with an id not in   *)
(* the current block list, a drop of an unknown block id, and loadPage     *)
(* with a name not in the directory leave pages, currentPage, recentPages, *)
(* the block list and storage unchanged.                                   *)
C21_UnknownIsNoOp ==
    UnknownReference =>
        /\ pages = ev.pre.pages
        /\ currentPage = ev.pre.currentPage
        /\ recentPages = ev.pre.recentPages
        /\ blocks = ev.pre.blocks
        /\ storage = ev.pre.storage

\* deleteBlock is called with an id given out earlier that no block of the list has
C21_Witness ==
    /\ ev.op = "deleteBlock"
    /\ ~HasBlock(ev.pre.blocks, ev.id)
    /\ ev.id < nextId
    /\ blocks # <<>>
    /\ blocks = ev.pre.blocks

\* the events that call deleteBlock
DeleteOps == {"delete", "backspace", "deleteBlock"}

(* C22: deleteBlock(id) for a block at index k removes exactly that block  *)
(* and keeps all other blocks in their relative order; when blocks are     *)
(* left, a focus step is deferred for k, and run on that list it focuses   *)
(* the block at index max(0, k-1) without failing.                         *)
C22_DeleteBlock ==
    [][ /\ (ev'.op \in DeleteOps /\ HasBlock(blocks, ev'.id)) =>
             LET k == IndexOfId(blocks, ev'.id)
             IN /\ blocks' = SpliceOut(blocks, k)
                /\ blocks' # <<>> =>
                       /\ timers' = Append(timers, [kind |-> "focus", index |-> k,
                                                    id |-> NoId])
                       /\ focusStep(Cur', k) =
                              [id |-> blocks'[Max(0, k - 1) + 1].id, threw |-> FALSE]
        /\ (/\ ev.op \in DeleteOps
            /\ HasBlock(ev.pre.blocks, ev.id)
            /\ ev.pre.timers = <<>>
            /\ Len(timers) = 1
            /\ ev'.op = "focusTimer") =>
               /\ ev'.id = blocks[Max(0, IndexOfId(ev.pre.blocks, ev.id) - 1) + 1].id
               /\ ev'.text = <<>> ]_vars

\* the second of three blocks was deleted and the deferred step, run next,
\* focused the first of the two left
C22_Witness ==
    /\ ev.op = "focusTimer"
    /\ steps = MaxFocusSteps - 2
    /\ ev.num = 1
    /\ ev.text = <<>>
    /\ Len(blocks) = 2
    /\ ev.id = blocks[1].id

\* the events that call duplicateBlock
DuplicateOps == {"duplicate", "duplicateBlock"}

IdsOf(list) == {list[i].id : i \in 1..Len(list)}

(* C23: duplicateBlock(id) for a block at index k inserts at index k+1 a   *)
(* new block with a fresh id, different from every id in the list, and the *)
(* type, content and indent the block at k has in the state; the source    *)
(* block and every other block are unchanged and keep their order.         *)
C23_DuplicateBlock ==
    (ev.op \in DuplicateOps /\ HasBlock(ev.pre.blocks, ev.id)) =>
        LET k == IndexOfId(ev.pre.blocks, ev.id)
            source == ev.pre.blocks[k + 1]
        IN /\ Len(blocks) = Len(ev.pre.blocks) + 1
           /\ blocks[k + 2].id \notin IdsOf(ev.pre.blocks)
           /\ blocks[k + 2].type = source.type
           /\ blocks[k + 2].content = source.content
           /\ blocks[k + 2].indent = source.indent
           /\ SpliceOut(blocks, k + 1) = ev.pre.blocks

\* the first of two blocks, retyped to a to-do since it was rendered, was
\* duplicated: the copy sits between the two
C23_Witness ==
    /\ ev.op = "duplicate"
    /\ Len(blocks) = 3
    /\ IndexOfId(blocks, ev.id) = 0
    /\ blocks[1].type = "todo"
    /\ blocks[2].type = "todo"
    /\ blocks[3].type # "todo"

\* the events that deliver a drop to the listeners of blocksContainer; ev.id is
\* the dragged block X, ev.num the target Y the first listener is given
DropOps == {"drop", "dropData"}

DropMoved == ev.op \in DropOps /\ HasBlock(ev.pre.blocks, ev.id)

XBeforeY ==
    /\ Len(blocks) = Len(ev.pre.blocks)
    /\ Range(blocks) = Range(ev.pre.blocks)
    /\ SelectSeq(blocks, LAMBDA b : b.id # ev.id) =
           SelectSeq(ev.pre.blocks, LAMBDA b : b.id # ev.id)
    /\ IF ev.num = NoId
       THEN blocks[Len(blocks)].id = ev.id
       ELSE IndexOfId(blocks, ev.id) + 1 = IndexOfId(blocks, ev.num)

(* C24: dropping block X with drop target Y (none means the end) leaves a  *)
(* permutation of the previous list in which X is immediately before Y, or *)
(* last when there is no target, and all other blocks keep their relative  *)
(* order; no block is lost or duplicated.                                  *)
C24_DropPlacesXBeforeY == DropMoved => XBeforeY

\* what does hold of every drop: a permutation in which the other blocks keep
\* their order, and X before Y when one listener is registered
C24_DropPermutes ==
    DropMoved =>
        /\ Len(blocks) = Len(ev.pre.blocks)
        /\ Range(blocks) = Range(ev.pre.blocks)
        /\ SelectSeq(blocks, LAMBDA b : b.id # ev.id) =
               SelectSeq(ev.pre.blocks, LAMBDA b : b.id # ev.id)
        /\ ev.pre.dropListeners = 1 => XBeforeY

(* C27: one drop event performs exactly one move, computed once: however   *)
(* many drop listeners the renders before have registered, the block list  *)
(* after the drop is the one a single move of the dragged block to the     *)
(* drop target gives.                                                      *)
C27_DropMovesOnce ==
    DropMoved => blocks = dropListener(ev.pre, ev.id, ev.num).blocks

(* C25: no operation ends in an uncaught exception, in any reachable state *)
(* and for any input: page and block operations, key handlers, routing of  *)
(* any fragment and paste of any plain text, a text with '#page=' and      *)
(* '&block=' that is no absolute URL included.                             *)
C25_NoUncaughtException == ev.text # Thrown

GrowOps == {"addBlock", "enter", "duplicate", "duplicateBlock"}

SameOps == {"updateBlock", "input", "tab", "retype", "checkbox", "arrow", "drop",
            "dropData", "renamePage", "toggleFavorite"}

(* C26: the set of block ids of the current page changes only by explicit  *)
(* steps: it grows by exactly one fresh id on addBlock, Enter and          *)
(* duplicateBlock, shrinks by exactly the deleted id on deleteBlock        *)
(* (delete button or Backspace on an empty block), and is unchanged by     *)
(* updateBlock, Tab and Shift+Tab, retype, checkbox toggle, arrow keys,    *)
(* drop, renamePage and toggleFavorite.                                    *)
C26_BlockIdsFrame ==
    LET old == IdsOf(ev.pre.blocks)
        new == IdsOf(blocks)
    IN /\ ev.op \in GrowOps =>
              /\ Cardinality(new) = Cardinality(old) + 1
              /\ old \subseteq new
              /\ Len(blocks) = Len(ev.pre.blocks) + 1
       /\ ev.op \in DeleteOps =>
              /\ ev.id \in old
              /\ new = old \ {ev.id}
              /\ Len(blocks) = Len(ev.pre.blocks) - 1
       /\ ev.op \in SameOps =>
              /\ new = old
              /\ Len(blocks) = Len(ev.pre.blocks)

\* the first of two blocks, emptied, was deleted with Backspace
C26_Witness ==
    /\ ev.op = "backspace"
    /\ Len(ev.pre.blocks) = 2
    /\ ev.id = ev.pre.blocks[1].id
    /\ IdsOf(blocks) = {ev.pre.blocks[2].id}

(* C28: the deferred focus step that deleteBlock schedules for removed     *)
(* index k always targets an existing block when it runs: whatever events  *)
(* are processed between the deletion and the step (further deleteBlock    *)
(* calls, loadPage, deletePage), index max(0, k-1) is inside the block     *)
(* list the step reads and the step does not fail.                         *)
C28_FocusStepTargetsBlock ==
    ev.op = "focusTimer" =>
        /\ Max(0, ev.num - 1) < Len(blocks)
        /\ ev.id = blocks[Max(0, ev.num - 1) + 1].id
        /\ ev.text # Thrown

\* the fragment routed last names a page that is not in the directory, and a block
UnknownPageBlockRouted ==
    /\ ev.op = "hashchange"
    /\ ev.text # Thrown
    /\ hash.kind = "page"
    /\ hash.block # NoId
    /\ ~PageNamed(ev.pre, DecodeURIComponent(hash.page))

(* C29: when the routed fragment is '#page=<name>&block=<id>' and <name>   *)
(* is not a page of the directory, handling the fragment changes no state  *)
(* and resolves no target block: no block is scrolled to or highlighted,   *)
(* even if <id> is the id of a block of the page displayed.                *)
C29_UnknownPageResolvesNoBlock ==
    UnknownPageBlockRouted =>
        /\ [Cur EXCEPT !.hash = ev.pre.hash, !.timers = ev.pre.timers] = ev.pre
        /\ \A k \in 1..Len(timers) :
               (k > Len(ev.pre.timers) /\ timers[k].kind = "scroll") =>
                   scrollStep(Cur, timers[k].id) = NoId

\* what does hold: the state of pages and blocks is left as it was
C29_UnknownPageChangesNoState ==
    UnknownPageBlockRouted =>
        [Cur EXCEPT !.hash = ev.pre.hash, !.timers = ev.pre.timers] = ev.pre

(* C30: a plain content-change event on a checked to-do block keeps it     *)
(* checked: after the user edits the text of a to-do whose stored content  *)
(* starts with the checked sentinel, the stored content still starts with  *)
(* the sentinel, followed by the edited text.                              *)
C30_EditKeepsChecked ==
    (/\ ev.op = "input"
     /\ InputBefore.type = "todo"
     /\ StartsWith(InputBefore.content, Sentinel)
     /\ \A m \in MarkdownShortcuts : m.text # ev.text) =>
        /\ InputAfter.type = "todo"
        /\ InputAfter.content = <<Sentinel>> \o ev.text

(* C31: whenever a page is current, its in-memory block list has at least  *)
(* one block, after any sequence of block and page operations, deleteBlock *)
(* and Backspace on the only block of the page and deletePage of the       *)
(* current page included.                                                  *)
C31_CurrentPageHasBlock == currentPage # NoPage => Len(blocks) >= 1

\* C31 as the code has it: the list of the current page is empty only when its
\* only block was deleted, or deletePage of the current page made current a page
\* whose stored list is empty, and then until a page is loaded
C31_EmptyOnlyAfterDelete ==
    (currentPage # NoPage /\ blocks = <<>>) =>
        \/ ev.op \in DeleteOps /\ Len(ev.pre.blocks) = 1
        \/ /\ ev.op = "deletePage"
           /\ ev.pre.currentPage # currentPage
           /\ ParseOrEmpty(ev.pre.storage.page[currentPage]) = <<>>
        \/ /\ ev.pre.blocks = <<>>
           /\ ev.pre.currentPage # NoPage
           /\ ~(ev.op = "loadPage" /\ PageNamed(ev.pre, ev.name))
           /\ ~(ev.op = "createPage" /\ ~PageNamed(ev.pre, ev.name))

\* a page whose only block had been deleted was loaded and shows one block
C31_Witness ==
    /\ ev.op = "loadPage"
    /\ ev.pre.currentPage # NoPage
    /\ ev.pre.blocks = <<>>
    /\ ParseOrEmpty(ev.pre.storage.page[ev.name]) = <<>>
    /\ Len(blocks) = 1

(* C32: in every reachable state the parentId of every page is either null *)
(* or the id of a page that is in the directory: no page is left in the    *)
(* directory after an ancestor of it was deleted, whatever the answers     *)
(* given to the confirmation requests during a deletePage.                 *)
C32_ParentInDirectory ==
    \A i \in 1..Len(pages) :
        pages[i].parentId = NoId \/ pages[i].parentId \in PageIds(Cur)

\* what does hold: a page loses its parent only in a deletePage in which the
\* request for the parent was accepted and one for a page below it was refused
C32_OrphanOnlyByRefusal ==
    (\E i \in 1..Len(pages) :
        /\ pages[i].parentId # NoId
        /\ pages[i].parentId \notin PageIds(Cur)
        /\ pages[i].parentId \in PageIds(ev.pre)) =>
            ev.op = "deletePage" /\ ev.num = 1

\* the fragment h is '#page=' followed by the encoded name, with or without a
\* block part
Encodes(h, name) == h.kind = "page" /\ h.page = EncodeURIComponent(name)

\* the fragment encoded the current page, if any, before the event
FragmentWasCurrent ==
    ev.pre.currentPage # NoPage => Encodes(ev.pre.hash, ev.pre.currentPage)

(* C33: after every operation, when a page is current the routing fragment *)
(* encodes that page, so that resolving the fragment again loads the same  *)
(* current page; this holds after createPage, loadPage, renamePage of the  *)
(* current page and deletePage of the current page.                        *)
C33_FragmentEncodesCurrent ==
    (/\ ev.op \in {"createPage", "loadPage", "renamePage", "deletePage"}
     /\ FragmentWasCurrent
     /\ currentPage # NoPage) =>
        /\ Encodes(hash, currentPage)
        /\ handleRouting(Cur).currentPage = currentPage

\* what does hold: createPage and loadPage leave the fragment of the page they
\* make current
C33_LoadSetsFragment ==
    (/\ ev.op \in {"createPage", "loadPage"}
     /\ FragmentWasCurrent
     /\ currentPage # NoPage) =>
        /\ Encodes(hash, currentPage)
        /\ handleRouting(Cur).currentPage = currentPage

(* C34: in every reachable state currentPage is either none or the name of *)
(* a page in the directory, and every name in recentPages is the name of a *)
(* page in the directory, after any sequence of createPage, loadPage,      *)
(* renamePage, deletePage and routing events, starting from an empty       *)
(* store.                                                                  *)
C34_NamesInDirectory ==
    /\ currentPage = NoPage \/ PageNamed(Cur, currentPage)
    /\ \A n \in Range(recentPages) : PageNamed(Cur, n)

\* the current page, which was among the recent pages, was deleted and another
\* page of the directory is current
C34_Witness ==
    /\ ev.op = "deletePage"
    /\ ev.num = 1
    /\ ev.pre.currentPage = ev.name
    /\ ev.name \in Range(ev.pre.recentPages)
    /\ Len(ev.pre.recentPages) >= 2
    /\ currentPage # NoPage
    /\ PageNamed(Cur, currentPage)
    /\ ev.name \notin Range(recentPages)

\* the names n for which the key 'page-n' is in the store
StoredPageNames == {n \in DOMAIN storage.page : storage.page[n] # Absent}

(* C35: starting from an empty store, in every reachable state the storage *)
(* keys of the form 'page-<name>' are exactly those of the pages in the    *)
(* directory: every page has a persisted block list and no persisted block *)
(* list remains for a name that is not a page, after createPage,           *)
(* renamePage and deletePage, cascades included.                           *)
C35_StoredListsMatchDirectory == StoredPageNames = PageNames(Cur)

\* a page and a page below it were deleted in one deletePage, other pages stay,
\* and the stored lists are those of the pages that stay
C35_Witness ==
    /\ ev.op = "deletePage"
    /\ ev.num = 1
    /\ Len(ev.pre.pages) - Len(pages) >= 2
    /\ pages # <<>>
    /\ StoredPageNames = PageNames(Cur)
    /\ \E n \in PageNames(ev.pre) : ev.pre.storage.page[n] # Absent /\ storage.page[n] = Absent

====
